---- MODULE Spec2Model ----
(***************************************************************************)
(* dtek-support-backend: the relay that turns support-ticket requests into *)
(* pages of a Notion database and auto-assigns an operations owner.        *)
(*                                                                         *)
(* The repository holds several revisions of the server.  Three of them    *)
(* assign an owner and are modelled here, selected by the variable rev:    *)
(*   "cjs"  src/server.cjs        load-based pickNextAssignee, validation, *)
(*                                mark-resolved                            *)
(*   "p001" src/unnamed/part_001  load-based pickNextAssignee, attachments,*)
(*                                mark-resolved, no issueSummary check     *)
(*   "p002" src/unnamed/part_002  hash-based pickAssigneeIdRoundRobin with *)
(*                                an optional roster from the environment  *)
(* The Notion database is the variable store; every await of a Notion call *)
(* is a point where other requests may run, and each call either succeeds  *)
(* or throws.                                                              *)
(***************************************************************************)
EXTENDS Integers, Sequences, FiniteSets, TLC

VARIABLES rev, USER_ID_TO_NAME, ASSIGNEE_USER_IDS, store, reqs, limits

vars == <<rev, USER_ID_TO_NAME, ASSIGNEE_USER_IDS, store, reqs, limits>>

(* ------------------------------ bounds -------------------------------- *)
MaxReq == 2          \* requests that may be in flight at once
MaxInitPages == 1    \* pages already in the database at start-up

(* ----------------------------- constants ------------------------------ *)
Cap == 2

NULL == "null"

Revisions == {"cjs", "p001", "p002"}
LoadRevisions == {"cjs", "p001"}

PersonIds == {"A", "B"}

\* the longest roster
MaxRoster == Cardinality(PersonIds)

\* pages the database may hold when requests overlap: enough for two
\* requests to push an owner that is one below the cap over it
RacePages == Cap + 1

\* pages the database may hold when requests come one at a time: every
\* owner at the cap, one fallback assignment and one more page
SerialPages == Cap * MaxRoster + 2

Statuses == {"To Do", "In Progress", "Done"}

Reqs == 1..MaxReq

(* ------------------------------ helpers ------------------------------- *)
Range(s) == {s[i] : i \in 1..Len(s)}

SeqsUpTo(S, n) == UNION {[1..k -> S] : k \in 0..n}

NoDup(s) == \A i, j \in 1..Len(s) : s[i] = s[j] => i = j

RECURSIVE SelectSeq2(_, _)
\* Array.prototype.filter with a predicate given as the set of kept values
SelectSeq2(s, keep) ==
  IF s = <<>> THEN <<>>
  ELSE IF Head(s) \in keep THEN <<Head(s)>> \o SelectSeq2(Tail(s), keep)
  ELSE SelectSeq2(Tail(s), keep)

(* ----------------------------- the roster ----------------------------- *)
\* String.prototype.trim on the segments of the comma list: a segment is
\* an id, an id with surrounding blanks, or blank
trim(seg) ==
  CASE seg = " B" -> "B"
    [] seg = " "  -> ""
    [] OTHER      -> seg

RawSegments == {"A", " B", " "}

\* ASSIGNEE_USER_IDS.split(',').map(s => s.trim()).filter(Boolean)
ParseIds(env) ==
  SelectSeq2([i \in 1..Len(env) |-> trim(env[i])], PersonIds)

\* Object.keys(USER_ID_TO_NAME): the keys in insertion order
userIds == USER_ID_TO_NAME

\* the environment variable: unset, or a comma list given by its segments
Unset == [defined |-> FALSE, segments |-> <<>>]
EnvList(segs) == [defined |-> TRUE, segments |-> segs]

Roster == IF rev \in LoadRevisions THEN userIds
          ELSE IF ~ASSIGNEE_USER_IDS.defined THEN <<>>
          ELSE ParseIds(ASSIGNEE_USER_IDS.segments)

RosterSet == Range(Roster)

(* ------------------------------ the store ----------------------------- *)
\* a page of the database: its Status, 'Assigned To' and 'Customer informed'
\* properties
Page(status, people, informed) ==
  [status |-> status, people |-> people, informed |-> informed]

\* pages made by hand in Notion before start-up: not yet done or done,
\* with nobody, one person or two persons assigned
\* ("X" is a workspace member who is in no roster)
InitPeople == {<<>>, <<"A">>, <<"X", "A">>}

InitPageKinds ==
  {Page(s, p, FALSE) : s \in {"In Progress", "Done"}, p \in InitPeople}

\* QueryFrom with the filter Status equals 'To Do'
RECURSIVE QueryFrom_ToDoOnly(_, _)
QueryFrom_ToDoOnly(db, i) ==
  IF i > Len(db) THEN <<>>
  ELSE IF db[i].status = "To Do" /\ db[i].people # <<>>
       THEN <<i>> \o QueryFrom_ToDoOnly(db, i + 1)
       ELSE QueryFrom_ToDoOnly(db, i + 1)

\* QueryFrom with the filter Status equals 'In Progress'
RECURSIVE QueryFrom_InProgressOnly(_, _)
QueryFrom_InProgressOnly(db, i) ==
  IF i > Len(db) THEN <<>>
  ELSE IF db[i].status = "In Progress" /\ db[i].people # <<>>
       THEN <<i>> \o QueryFrom_InProgressOnly(db, i + 1)
       ELSE QueryFrom_InProgressOnly(db, i + 1)

\* notion.databases.query with the filter
\*   Status does_not_equal 'Done' AND 'Assigned To' is_not_empty:
\* the ids of the matching pages, in database order
RECURSIVE QueryFrom(_, _)
QueryFrom(db, i) ==
  IF i > Len(db) THEN <<>>
  ELSE IF db[i].status # "Done" /\ db[i].people # <<>>
       THEN <<i>> \o QueryFrom(db, i + 1)
       ELSE QueryFrom(db, i + 1)

QueryOpenAssigned(db) == QueryFrom(db, 1)

(* --------------------------- pickNextAssignee ------------------------- *)
\* counts = {}; for (const id of userIds) counts[id] = 0
ZeroCounts(ids) == [id \in Range(ids) |-> 0]

\* CountStep counting a page for the first roster owner among all of its
\* assignees
CountStep_AnyAssignee(counts, people) ==
  LET hits == {i \in 1..Len(people) : people[i] \in DOMAIN counts} IN
  IF hits # {}
  THEN LET id == people[CHOOSE i \in hits : \A j \in hits : i <= j] IN
       [counts EXCEPT ![id] = @ + 1]
  ELSE counts

\* CountStep without the test that the id is a key of the table:
\* counts[id] = (counts[id] || 0) + 1
CountStep_AddsKey(counts, people) ==
  IF Len(people) > 0
  THEN LET id == people[1] IN
       [k \in DOMAIN counts \cup {id} |->
          IF k = id THEN (IF k \in DOMAIN counts THEN counts[k] ELSE 0) + 1
          ELSE counts[k]]
  ELSE counts

\* CountStep with the test negated (counts[id] === undefined)
CountStep_Inverted(counts, people) ==
  IF Len(people) > 0
  THEN LET id == people[1] IN
       IF id \notin DOMAIN counts
       THEN [k \in DOMAIN counts \cup {id} |->
               IF k = id THEN 1 ELSE counts[k]]
       ELSE counts
  ELSE counts

\* one iteration of the loop over pages.results
CountStep(counts, people) ==
  IF Len(people) > 0
  THEN LET id == people[1] IN
       IF id \in DOMAIN counts
       THEN [counts EXCEPT ![id] = @ + 1]
       ELSE counts
  ELSE counts

\* the table after the first k pages of the result have been counted
RECURSIVE CountsAfter(_, _, _, _)
CountsAfter(ids, db, results, k) ==
  IF k = 0 THEN ZeroCounts(ids)
  ELSE CountStep(CountsAfter(ids, db, results, k - 1), db[results[k]].people)

CountOpen(ids, db, results) == CountsAfter(ids, db, results, Len(results))

\* FirstUnderCap with the comparison <= 2
RECURSIVE FirstUnderCap_AtCap(_, _, _)
FirstUnderCap_AtCap(ids, counts, i) ==
  IF i > Len(ids) THEN NULL
  ELSE IF (IF ids[i] \in DOMAIN counts THEN counts[ids[i]] ELSE 0) <= Cap
       THEN ids[i]
       ELSE FirstUnderCap_AtCap(ids, counts, i + 1)

\* for (const id of userIds) if ((counts[id] || 0) < 2) return id
RECURSIVE FirstUnderCap(_, _, _)
FirstUnderCap(ids, counts, i) ==
  IF i > Len(ids) THEN NULL
  ELSE IF (IF ids[i] \in DOMAIN counts THEN counts[ids[i]] ELSE 0) < Cap
       THEN ids[i]
       ELSE FirstUnderCap(ids, counts, i + 1)

\* Choose without the final return userIds[0]
Choose_NoFallback(ids, counts) == FirstUnderCap(ids, counts, 1)

\* Choose falling back to the least loaded owner
Choose_LeastLoaded(ids, counts) ==
  LET available == FirstUnderCap(ids, counts, 1) IN
  IF available # NULL THEN available
  ELSE IF Len(ids) > 0
       THEN ids[CHOOSE i \in 1..Len(ids) :
                  \A j \in 1..Len(ids) :
                    \/ counts[ids[i]] < counts[ids[j]]
                    \/ counts[ids[i]] = counts[ids[j]] /\ i <= j]
       ELSE NULL

\* Choose falling back to the last owner of the roster
Choose_FallbackLast(ids, counts) ==
  LET available == FirstUnderCap(ids, counts, 1) IN
  IF available # NULL THEN available
  ELSE IF Len(ids) > 0 THEN ids[Len(ids)] ELSE NULL

\* ... return userIds[0]  (undefined when userIds is empty)
Choose(ids, counts) ==
  LET available == FirstUnderCap(ids, counts, 1) IN
  IF available # NULL THEN available
  ELSE IF Len(ids) > 0 THEN ids[1] ELSE NULL

pickNextAssignee(ids, db) ==
  Choose(ids, CountOpen(ids, db, QueryOpenAssigned(db)))

(* ----------------------- pickAssigneeIdRoundRobin --------------------- *)
Customers == {"ADNOC 123", ""}
Times == {"179406810", "179406811"}

\* customerStr || 'fallback'
KeyCustomer(customerStr) == IF customerStr = "" THEN "fallback" ELSE customerStr

\* parseInt(sha1(key).slice(0, 6), 16) for the keys of the model
Sha1Prefix(c, t) ==
  CASE c = "ADNOC 123" /\ t = "179406810" -> 13045226
    [] c = "ADNOC 123" /\ t = "179406811" -> 10927999
    [] c = "System"    /\ t = "179406810" -> 12881278
    [] c = "System"    /\ t = "179406811" -> 5387476
    [] c = "fallback"  /\ t = "179406810" -> 711772
    [] c = "fallback"  /\ t = "179406811" -> 483868

pickAssigneeIdRoundRobin(env, customerStr, t) ==
  IF ~env.defined THEN NULL
  ELSE LET ids == ParseIds(env.segments) IN
       IF Len(ids) = 0 THEN NULL
       ELSE ids[(Sha1Prefix(KeyCustomer(customerStr), t) % Len(ids)) + 1]

(* ------------------------------ requests ------------------------------ *)
\* pc: where the handler is suspended; summary: issueSummary is truthy;
\* attachments: file urls still to append; target: pageId of mark-resolved;
\* key: the customer string and time bucket hashed by the round robin;
\* counts, assignedId: the locals of pickNextAssignee and createNotionPage;
\* seen: number of pages in the database when the owner was selected;
\* page: id of the page this request created; res: HTTP status sent;
\* err: the Notion call whose error the route caught ("" when none)
Idle == [pc |-> "idle", kind |-> "none", summary |-> FALSE, attachments |-> 0,
         target |-> 0, key |-> <<>>, counts |-> <<>>, assignedId |-> NULL,
         seen |-> 0, page |-> 0, res |-> 0, err |-> ""]

\* limits.slots requests are served at once, and the database is not
\* grown beyond limits.pages pages
Free(r) == r <= limits.slots /\ reqs[r].pc \in {"idle", "done"}

\* creations accepted and not yet written
InFlightCreates ==
  Cardinality({r \in Reqs : reqs[r].pc \in {"querying", "creating"}})

\* res.status(code).json(...): the handler ends.  The record keeps what the
\* request read, chose and wrote until the slot serves the next request.
Respond(old, code, err) ==
  [Idle EXCEPT !.pc = "done", !.kind = old.kind, !.counts = old.counts,
               !.assignedId = old.assignedId, !.seen = old.seen,
               !.page = old.page, !.res = code, !.err = err]

\* the properties createNotionPage sends to notion.pages.create
NewPage(assignedId) ==
  Page("To Do", IF assignedId = NULL THEN <<>> ELSE <<assignedId>>, FALSE)

\* the owner table of the load-based revisions (four fixed ids in the
\* source, two here) and the comma list of part_002, set or not
FixedTable == <<"A", "B">>
FixedList == EnvList(<<"A", " B">>)

\* overlapping requests, the fixed roster, a database that starts empty
Init ==
  /\ rev \in Revisions
  /\ IF rev \in LoadRevisions
     THEN USER_ID_TO_NAME = FixedTable /\ ASSIGNEE_USER_IDS = Unset
     ELSE USER_ID_TO_NAME = <<>> /\ ASSIGNEE_USER_IDS \in {Unset, FixedList}
  /\ store = <<>>
  /\ reqs = [r \in Reqs |-> Idle]
  /\ limits = [slots |-> MaxReq, pages |-> RacePages]

\* one request at a time, every roster, a database that already holds pages
InitSerial ==
  /\ rev \in Revisions
  /\ IF rev \in LoadRevisions
     THEN /\ USER_ID_TO_NAME \in {s \in SeqsUpTo(PersonIds, MaxRoster) :
                                    Len(s) > 0 /\ NoDup(s)}
          /\ ASSIGNEE_USER_IDS = Unset
     ELSE /\ USER_ID_TO_NAME = <<>>
          /\ ASSIGNEE_USER_IDS \in
               {Unset} \cup {EnvList(s) : s \in SeqsUpTo(RawSegments, MaxRoster)}
  /\ store \in SeqsUpTo(InitPageKinds, MaxInitPages)
  /\ reqs = [r \in Reqs |-> Idle]
  /\ limits = [slots |-> 1, pages |-> SerialPages]

(* --------------------- POST /api/create-ticket ------------------------ *)
\* the synchronous part of createNotionPage up to its first await
\* (the load-based revisions read neither the customer nor the clock
\* here; part_002 hashes them at the time t of the call)
StartCreate(r, kind, summary, customers, nAttach) ==
  IF rev \in LoadRevisions
  THEN reqs' = [reqs EXCEPT ![r] =
         [Idle EXCEPT !.pc = "querying", !.kind = kind, !.summary = summary,
                      !.attachments = nAttach]]
  ELSE \E customerStr \in customers, t \in Times :
         reqs' = [reqs EXCEPT ![r] =
           [Idle EXCEPT !.pc = "creating", !.kind = kind,
                        !.summary = summary, !.key = <<customerStr, t>>,
                        !.seen = Len(store),
                        !.assignedId = pickAssigneeIdRoundRobin(
                                         ASSIGNEE_USER_IDS, customerStr, t)]]

\* nAttach: the number of urls in the attachments of the body, which only
\* part_001 reads
CreateTicket(r, summary, nAttach) ==
  /\ Free(r)
  /\ \A q \in Reqs : q < r => ~Free(q)
  /\ Len(store) + InFlightCreates < limits.pages
  /\ nAttach > 0 => rev = "p001"
  /\ IF rev # "p001" /\ ~summary
     THEN reqs' = [reqs EXCEPT ![r] =
            [Idle EXCEPT !.pc = "done", !.kind = "create", !.res = 400]]
     ELSE StartCreate(r, "create", summary, Customers, nAttach)
  /\ UNCHANGED <<rev, USER_ID_TO_NAME, ASSIGNEE_USER_IDS, store, limits>>

(* ------------------- POST /api/create-test-ticket --------------------- *)
CreateTestTicket(r) ==
  /\ Free(r)
  /\ \A q \in Reqs : q < r => ~Free(q)
  /\ Len(store) + InFlightCreates < limits.pages
  /\ StartCreate(r, "test", TRUE, {"System"}, 0)
  /\ UNCHANGED <<rev, USER_ID_TO_NAME, ASSIGNEE_USER_IDS, store, limits>>

(* ------------- pickNextAssignee: the query is answered ---------------- *)
\* QueryOk with a selection that reserves the slot of the chosen owner by
\* writing the page itself
QueryOk_Reserves(r) ==
  /\ reqs[r].pc = "querying"
  /\ LET results == QueryOpenAssigned(store)
         counts == CountOpen(userIds, store, results)
     IN /\ reqs' = [reqs EXCEPT ![r].pc = "creating",
                                ![r].counts = counts,
                                ![r].assignedId = Choose(userIds, counts),
                                ![r].seen = Len(store)]
        /\ store' = Append(store, NewPage(Choose(userIds, counts)))
  /\ UNCHANGED <<rev, USER_ID_TO_NAME, ASSIGNEE_USER_IDS, limits>>

\* QueryOk with a selection that asks again until an owner is below the cap
QueryOk_WaitsForCapacity(r) ==
  /\ reqs[r].pc = "querying"
  /\ LET results == QueryOpenAssigned(store)
         counts == CountOpen(userIds, store, results)
     IN /\ \E id \in DOMAIN counts : counts[id] < Cap
        /\ reqs' = [reqs EXCEPT ![r].pc = "creating",
                                ![r].counts = counts,
                                ![r].assignedId = Choose(userIds, counts),
                                ![r].seen = Len(store)]
  /\ UNCHANGED <<rev, USER_ID_TO_NAME, ASSIGNEE_USER_IDS, store, limits>>

QueryOk(r) ==
  /\ reqs[r].pc = "querying"
  /\ LET results == QueryOpenAssigned(store)
         counts == CountOpen(userIds, store, results)
     IN reqs' = [reqs EXCEPT ![r].pc = "creating",
                             ![r].counts = counts,
                             ![r].assignedId = Choose(userIds, counts),
                             ![r].seen = Len(store)]
  /\ UNCHANGED <<rev, USER_ID_TO_NAME, ASSIGNEE_USER_IDS, store, limits>>

\* QueryFail with the error caught inside pickNextAssignee, which then
\* returns the first owner
QueryFail_Swallow(r) ==
  /\ reqs[r].pc = "querying"
  /\ reqs' = [reqs EXCEPT ![r].pc = "creating",
                          ![r].err = "databases.query",
                          ![r].assignedId = userIds[1],
                          ![r].seen = Len(store)]
  /\ UNCHANGED <<rev, USER_ID_TO_NAME, ASSIGNEE_USER_IDS, store, limits>>

\* notion.databases.query throws: the error leaves pickNextAssignee and
\* createNotionPage and is caught by the route
QueryFail(r) ==
  /\ reqs[r].pc = "querying"
  /\ reqs' = [reqs EXCEPT ![r] = Respond(@, 500, "databases.query")]
  /\ UNCHANGED <<rev, USER_ID_TO_NAME, ASSIGNEE_USER_IDS, store, limits>>

(* ------------------------ notion.pages.create ------------------------- *)
CreateOk(r) ==
  /\ reqs[r].pc = "creating"
  /\ store' = Append(store, NewPage(reqs[r].assignedId))
  /\ reqs' = [reqs EXCEPT ![r] =
       IF reqs[r].attachments > 0
       THEN [@ EXCEPT !.pc = "attaching", !.page = Len(store) + 1]
       ELSE Respond([@ EXCEPT !.page = Len(store) + 1], 200, "")]
  /\ UNCHANGED <<rev, USER_ID_TO_NAME, ASSIGNEE_USER_IDS, limits>>

CreateFail(r) ==
  /\ reqs[r].pc = "creating"
  /\ reqs' = [reqs EXCEPT ![r] = Respond(@, 500, "pages.create")]
  /\ UNCHANGED <<rev, USER_ID_TO_NAME, ASSIGNEE_USER_IDS, store, limits>>

(* ------------------ notion.blocks.children.append --------------------- *)
AttachOk(r) ==
  /\ reqs[r].pc = "attaching"
  /\ reqs' = [reqs EXCEPT ![r] =
       IF reqs[r].attachments > 1
       THEN [@ EXCEPT !.attachments = @ - 1]
       ELSE Respond(@, 200, "")]
  /\ UNCHANGED <<rev, USER_ID_TO_NAME, ASSIGNEE_USER_IDS, store, limits>>

AttachFail(r) ==
  /\ reqs[r].pc = "attaching"
  /\ reqs' = [reqs EXCEPT ![r] = Respond(@, 500, "blocks.children.append")]
  /\ UNCHANGED <<rev, USER_ID_TO_NAME, ASSIGNEE_USER_IDS, store, limits>>

(* ---------------------- POST /api/mark-resolved ----------------------- *)
\* target 0 stands for a request without pageId, Len(store) + 1 for the
\* id of a page that does not exist (yet)
MarkResolved(r, target) ==
  /\ rev \in LoadRevisions
  /\ target <= Len(store) + 1
  /\ Free(r)
  /\ \A q \in Reqs : q < r => ~Free(q)
  /\ reqs' = [reqs EXCEPT ![r] =
       IF target = 0
       THEN [Idle EXCEPT !.pc = "done", !.kind = "resolve", !.res = 400]
       ELSE [Idle EXCEPT !.pc = "updating", !.kind = "resolve",
                         !.target = target]]
  /\ UNCHANGED <<rev, USER_ID_TO_NAME, ASSIGNEE_USER_IDS, store, limits>>

\* UpdateOk with an update that leaves the Status property out
UpdateOk_InformedOnly(r) ==
  /\ reqs[r].pc = "updating"
  /\ reqs[r].target \in 1..Len(store)
  /\ store' = [store EXCEPT ![reqs[r].target] = [@ EXCEPT !.informed = TRUE]]
  /\ reqs' = [reqs EXCEPT ![r] = Respond(@, 200, "")]
  /\ UNCHANGED <<rev, USER_ID_TO_NAME, ASSIGNEE_USER_IDS, limits>>

\* notion.pages.update of an existing page
UpdateOk(r) ==
  /\ reqs[r].pc = "updating"
  /\ reqs[r].target \in 1..Len(store)
  /\ store' = [store EXCEPT ![reqs[r].target] =
                 [@ EXCEPT !.status = "Done", !.informed = TRUE]]
  /\ reqs' = [reqs EXCEPT ![r] = Respond(@, 200, "")]
  /\ UNCHANGED <<rev, USER_ID_TO_NAME, ASSIGNEE_USER_IDS, limits>>

UpdateFail(r) ==
  /\ reqs[r].pc = "updating"
  /\ reqs' = [reqs EXCEPT ![r] = Respond(@, 500, "pages.update")]
  /\ UNCHANGED <<rev, USER_ID_TO_NAME, ASSIGNEE_USER_IDS, store, limits>>

Next ==
  \E r \in Reqs :
    \/ \E summary \in BOOLEAN, n \in 0..1 : CreateTicket(r, summary, n)
    \/ CreateTestTicket(r)
    \/ QueryOk(r)
    \/ QueryFail(r)
    \/ CreateOk(r)
    \/ CreateFail(r)
    \/ AttachOk(r)
    \/ AttachFail(r)
    \/ \E target \in 0..limits.pages : MarkResolved(r, target)
    \/ UpdateOk(r)
    \/ UpdateFail(r)

Spec == Init /\ [][Next]_vars

SpecSerial == InitSerial /\ [][Next]_vars

\* every Notion call returns successfully: no call throws, mark-resolved
\* names an existing page, and no call stays unanswered for ever
NextLive ==
  \E r \in Reqs :
    \/ \E summary \in BOOLEAN, n \in 0..1 : CreateTicket(r, summary, n)
    \/ CreateTestTicket(r)
    \/ QueryOk(r)
    \/ CreateOk(r)
    \/ AttachOk(r)
    \/ \E target \in 0..Len(store) : MarkResolved(r, target)
    \/ UpdateOk(r)

Fairness ==
  \A r \in Reqs :
    /\ WF_vars(QueryOk(r))
    /\ WF_vars(CreateOk(r))
    /\ WF_vars(AttachOk(r))
    /\ WF_vars(UpdateOk(r))

\* the revisions with the load-based selection, one request at a time,
\* every roster, a database that starts empty
InitLive ==
  /\ rev \in LoadRevisions
  /\ USER_ID_TO_NAME \in {s \in SeqsUpTo(PersonIds, MaxRoster) :
                            Len(s) > 0 /\ NoDup(s)}
  /\ ASSIGNEE_USER_IDS = Unset
  /\ store = <<>>
  /\ reqs = [r \in Reqs |-> Idle]
  /\ limits = [slots |-> 1, pages |-> SerialPages]

SpecLive == InitLive /\ [][NextLive]_vars /\ Fairness

TypeOK ==
  /\ rev \in Revisions
  /\ Len(store) <= limits.pages
  /\ \A r \in Reqs : reqs[r].pc \in
       {"idle", "querying", "creating", "attaching", "updating", "done"}

(* ====================================================================== *)
(* Properties                                                             *)
(* ====================================================================== *)
\* the number of pages that are not done and whose first assignee is o
OpenCountOf(db, o) ==
  Cardinality({i \in 1..Len(db) :
     db[i].status # "Done" /\ db[i].people # <<>> /\ db[i].people[1] = o})

\* the step in which the query of request r is answered and the owner chosen
QueryStep(r) == reqs[r].pc = "querying" /\ reqs'[r].pc = "creating"

\* a request for which an owner has just been selected
Selected(r) == reqs[r].pc = "creating"

\* the database without the pages whose first assignee is not in the roster
WithoutStrangers(db) ==
  SelectSeq(db, LAMBDA pg : pg.people = <<>> \/ pg.people[1] \in RosterSet)

HasStranger(db) ==
  \E i \in 1..Len(db) :
     /\ db[i].status # "Done" /\ db[i].people # <<>>
     /\ db[i].people[1] \notin RosterSet

\* C1: with a non-empty roster, the owner id returned by the selection is
\* a member of the roster, whatever the open items and their owners are.
C1_SelectedInRoster ==
  \A r \in Reqs :
    Selected(r) /\ Roster # <<>> => reqs[r].assignedId \in RosterSet

\* C1 witness: an owner was selected while an open item of a stranger and
\* roster owners at the cap were in the snapshot
C1_Witness ==
  \E r \in Reqs :
    /\ Selected(r) /\ rev \in LoadRevisions
    /\ HasStranger(store)
    /\ \A o \in RosterSet : reqs[r].counts[o] >= Cap
    /\ reqs[r].assignedId \in RosterSet

\* C2: when some roster owner has fewer than Cap open items, the selection
\* returns the first such owner in roster order.
C2_FirstUnderCap ==
  [][\A r \in Reqs :
       QueryStep(r) /\ (\E o \in RosterSet : OpenCountOf(store, o) < Cap)
       => \E i \in 1..Len(Roster) :
            /\ reqs'[r].assignedId = Roster[i]
            /\ OpenCountOf(store, Roster[i]) < Cap
            /\ \A j \in 1..(i - 1) : OpenCountOf(store, Roster[j]) >= Cap]_vars

\* C2 witness: the first owner is at the cap and the second one is selected
C2_Witness ==
  \E r \in Reqs :
    /\ Selected(r) /\ rev \in LoadRevisions /\ Len(Roster) = 2
    /\ reqs[r].counts[Roster[1]] >= Cap
    /\ reqs[r].counts[Roster[2]] < Cap
    /\ reqs[r].assignedId = Roster[2]

\* C3: when every roster owner has at least Cap open items, the selection
\* returns the first owner of the roster, whatever the counts are.
C3_FallbackFirst ==
  [][\A r \in Reqs :
       QueryStep(r) /\ (\A o \in RosterSet : OpenCountOf(store, o) >= Cap)
       => reqs'[r].assignedId = Roster[1]]_vars

\* C3 witness: every owner is at the cap, the first owner holds more items
\* than the second and is selected all the same
C3_Witness ==
  \E r \in Reqs :
    /\ Selected(r) /\ rev \in LoadRevisions /\ Len(Roster) = 2
    /\ reqs[r].counts[Roster[2]] >= Cap
    /\ reqs[r].counts[Roster[1]] > reqs[r].counts[Roster[2]]
    /\ reqs[r].assignedId = Roster[1]

\* C4: open items whose first assignee is not in the roster do not affect
\* the result: the selection returns the owner it returns for the database
\* without these items, and it returns an owner (no error).
C4_StrangersIgnored ==
  [][\A r \in Reqs :
       QueryStep(r)
       => /\ reqs'[r].assignedId = pickNextAssignee(userIds, store)
          /\ reqs'[r].assignedId =
               pickNextAssignee(userIds, WithoutStrangers(store))
          /\ reqs'[r].assignedId # NULL]_vars

\* C4 witness: a selection over a snapshot that holds an open item whose
\* first assignee is a stranger and whose second assignee is a roster
\* owner one item below the cap
C4_Witness ==
  \E r \in Reqs :
    /\ Selected(r) /\ rev \in LoadRevisions
    /\ \E i \in 1..Len(store) :
         /\ store[i].status # "Done" /\ Len(store[i].people) = 2
         /\ store[i].people[1] \notin RosterSet
         /\ store[i].people[2] = Roster[1]
    /\ reqs[r].counts[Roster[1]] = Cap - 1
    /\ reqs[r].assignedId = Roster[1]

\* C5 (as claimed): with an empty roster the selection fails and the
\* create-ticket flow creates no ticket: no create-ticket request gets past
\* the selection, writes a page or is answered with success.
C5_EmptyRosterFails ==
  Roster = <<>> =>
    \A r \in Reqs :
      reqs[r].kind = "create"
      => ~Selected(r) /\ reqs[r].page = 0 /\ reqs[r].res # 200

\* C6: when the open-items query of a request fails, no owner is chosen,
\* the request ends at once with the failure response (no second query),
\* and neither the request nor the failing step writes a page.
C6_QueryErrorSurfaces ==
  [][\A r \in Reqs :
       reqs[r].pc = "querying" /\ reqs'[r].err = "databases.query"
       => /\ reqs'[r].pc = "done"
          /\ reqs'[r].res = 500
          /\ reqs'[r].assignedId = NULL
          /\ reqs'[r].page = 0
          /\ store' = store]_vars

\* C6 witness: a request whose query failed was answered 500 while the
\* database held open assigned pages
C6_Witness ==
  \E r \in Reqs :
    /\ reqs[r].pc = "done" /\ reqs[r].err = "databases.query"
    /\ reqs[r].res = 500 /\ reqs[r].page = 0
    /\ QueryOpenAssigned(store) # <<>>

\* C7 (as claimed): a create-ticket request that has ended either reported
\* success and wrote a page assigned to a roster owner, or reported failure
\* and wrote no page.
C7_NoPartialSuccess ==
  \A r \in Reqs :
    reqs[r].pc = "done" /\ reqs[r].kind = "create"
    => \/ /\ reqs[r].res = 200
          /\ reqs[r].page \in 1..Len(store)
          /\ store[reqs[r].page].people # <<>>
          /\ store[reqs[r].page].people[1] \in RosterSet
       \/ reqs[r].res # 200 /\ reqs[r].page = 0

\* two requests that both read the count c for the owner o they both chose,
\* each before the page of the other was written, and whose pages are both
\* written
Raced(r1, r2, o, c) ==
  /\ r1 # r2 /\ rev \in LoadRevisions
  /\ reqs[r1].page # 0 /\ reqs[r2].page # 0
  /\ reqs[r1].assignedId = o /\ reqs[r2].assignedId = o
  /\ reqs[r1].counts[o] = c /\ reqs[r2].counts[o] = c
  /\ reqs[r1].page > reqs[r2].seen /\ reqs[r2].page > reqs[r1].seen

\* no page but those of r1 and r2 was written since the earlier of their
\* queries
OnlyTheirPages(r1, r2) ==
  /\ reqs[r1].seen = reqs[r2].seen
  /\ Len(store) = reqs[r1].seen + 2

C9_CountsMatchStore ==
  [][\A r \in Reqs :
       QueryStep(r)
       => /\ DOMAIN reqs'[r].counts = RosterSet
          /\ \A o \in RosterSet :
               reqs'[r].counts[o] = OpenCountOf(store, o)]_vars

\* C9 witness: a selection that counted one page for an owner while the
\* database also held a done page of that owner and an open page on which
\* the owner is only the second assignee
C9_Witness ==
  \E r \in Reqs : \E o \in RosterSet :
    /\ Selected(r) /\ rev \in LoadRevisions
    /\ reqs[r].counts[o] = 1
    /\ \E i \in 1..Len(store) :
         store[i].status = "Done" /\ store[i].people = <<o>>
    /\ \E i \in 1..Len(store) :
         /\ store[i].status # "Done" /\ Len(store[i].people) = 2
         /\ store[i].people[2] = o

\* C10: at every point of the counting loop of a selection the key set of
\* the load table is the roster's id set, and every key is zero before
\* the first page is counted.
C10_KeysAreRoster ==
  [][\A r \in Reqs :
       QueryStep(r)
       => LET results == QueryOpenAssigned(store) IN
          /\ \A k \in 0..Len(results) :
               DOMAIN CountsAfter(userIds, store, results, k) = RosterSet
          /\ \A o \in RosterSet :
               CountsAfter(userIds, store, results, 0)[o] = 0
          /\ DOMAIN reqs'[r].counts = RosterSet]_vars

\* C10 witness: a selection with a two-owner roster over a snapshot that
\* holds an open item of a stranger, after which an item was counted
C10_Witness ==
  \E r \in Reqs :
    /\ Selected(r) /\ rev \in LoadRevisions /\ Len(Roster) = 2
    /\ HasStranger(store)
    /\ DOMAIN reqs[r].counts = RosterSet
    /\ \E o \in RosterSet : reqs[r].counts[o] > 0

\* a request that went through the selection and holds its result
Chose(r) ==
  /\ reqs[r].kind \in {"create", "test"}
  /\ \/ reqs[r].pc \in {"creating", "attaching"}
     \/ /\ reqs[r].pc = "done"
        /\ reqs[r].err \in {"", "pages.create", "blocks.children.append"}
        /\ reqs[r].res # 400

\* no page was resolved through the backend, so the database has only
\* grown and its first n pages are what a selection that saw n pages read
NothingResolved == \A i \in 1..Len(store) : ~store[i].informed

\* C11 (as claimed): two selections made with the same roster over the
\* same open items return the same owner, whatever the time of the call,
\* the customer of the request and the calls made before.
C11_SameSnapshotSameOwner ==
  \A r1, r2 \in Reqs :
    /\ Chose(r1) /\ Chose(r2)
    /\ reqs[r1].seen = reqs[r2].seen /\ NothingResolved
    => reqs[r1].assignedId = reqs[r2].assignedId

Accepted(r) ==
  /\ reqs[r].kind = "create" /\ reqs[r].summary
  /\ reqs[r].pc \in {"querying", "creating", "attaching"}

\* the request was answered with success and its page names a roster owner
Served(r) ==
  /\ reqs[r].kind = "create" /\ reqs[r].pc = "done" /\ reqs[r].res = 200
  /\ reqs[r].page \in 1..Len(store)
  /\ store[reqs[r].page].people # <<>>
  /\ store[reqs[r].page].people[1] \in RosterSet

\* C13: in the revisions with the load-based selection, when every Notion
\* call returns successfully, every create-ticket request with an
\* issueSummary is eventually answered with success and its page is
\* assigned to a roster owner, also when every owner is at or above the cap.
C13_NeverBlocked == \A r \in Reqs : Accepted(r) ~> Served(r)

\* C13 witness: a request was answered with success and its page went to
\* the first owner although the selection counted every owner of a
\* two-owner roster at the cap
C13_Witness ==
  \E r \in Reqs :
    /\ Served(r) /\ Len(Roster) = 2
    /\ \A o \in RosterSet : reqs[r].counts[o] >= Cap
    /\ store[reqs[r].page].people = <<Roster[1]>>

\* C14 (as claimed): the load-based assignment keeps every roster owner at
\* Cap open tickets at most: starting from a database in which no roster
\* owner holds more, no sequence of creations and resolutions leaves a
\* roster owner with more than Cap open tickets.
C14_MaxTwoOpen ==
  rev \in LoadRevisions =>
    \A o \in RosterSet : OpenCountOf(store, o) <= Cap

\* the roster owners after the first hold no more than Cap open tickets
OthersWithinCap(db) ==
  \A i \in 2..Len(Roster) : OpenCountOf(db, Roster[i]) <= Cap

\* the step creates the page of a request that chose owner o after its
\* selection had counted every roster owner at Cap or more
FallbackPage(o) ==
  \E r \in Reqs :
    /\ reqs[r].pc = "creating" /\ reqs'[r].page = Len(store')
    /\ reqs[r].assignedId = o
    /\ \A q \in RosterSet : reqs[r].counts[q] >= Cap

\* the step takes owner o beyond Cap open tickets
Exceeds(o) ==
  /\ OpenCountOf(store', o) > Cap
  /\ OpenCountOf(store', o) > OpenCountOf(store, o)

\* C15: with the load-based selection and requests served one at a time,
\* from a database in which no roster owner holds more than Cap open
\* tickets, no owner but the first of the roster ever holds more than Cap
\* open tickets, and the first owner gets beyond Cap only by the page of a
\* request whose selection counted every owner at Cap or more.
C15_OnlyFirstExceeds ==
  [][(rev \in LoadRevisions) =>
       (/\ OthersWithinCap(store)
        /\ OthersWithinCap(store')
        /\ \A o \in RosterSet :
             Exceeds(o) => (o = Roster[1] /\ FallbackPage(o)))]_vars

\* C15 witness: after creations and a resolution the first owner of a
\* two-owner roster holds more than Cap open tickets and the second owner
\* holds Cap
C15_Witness ==
  /\ rev \in LoadRevisions /\ Len(Roster) = 2
  /\ OpenCountOf(store, Roster[1]) > Cap
  /\ OpenCountOf(store, Roster[2]) = Cap
  /\ \E i \in 1..Len(store) : store[i].informed

\* the database held no open assigned page at start-up and no page was
\* resolved since: every page is a ticket created by the backend and still
\* 'To Do', or a page from start-up that is done or has no assignee
CleanStart ==
  \A i \in 1..Len(store) :
    \/ store[i].status = "To Do" /\ ~store[i].informed
    \/ /\ ~store[i].informed
       /\ store[i].status = "Done" \/ store[i].people = <<>>

\* the tickets created by the backend, in the order of their creation
Created == SelectSeq(store, LAMBDA pg : pg.status = "To Do")

\* the owner of the k-th ticket: two tickets for each owner in roster
\* order, the first owner from then on
Expected(k) ==
  IF k <= Cap * Len(Roster) THEN Roster[(k + Cap - 1) \div Cap] ELSE Roster[1]

\* C16: with the load-based selection, from a database without open
\* assigned pages, tickets created one at a time with no resolution go to
\* the owners in roster order two at a time, R[0], R[0], R[1], R[1], ...,
\* for the first 2n tickets, and every later ticket goes to R[0].
C16_RosterOrder ==
  rev \in LoadRevisions /\ CleanStart =>
    \A k \in 1..Len(Created) : Created[k].people = <<Expected(k)>>

\* C16 witness: with two owners, four tickets went to the owners two at a
\* time and two more tickets were created after them
C16_Witness ==
  /\ rev \in LoadRevisions /\ CleanStart /\ Len(Roster) = 2
  /\ Len(Created) = Cap * Len(Roster) + 2
  /\ Created[3].people = <<Roster[2]>>
  /\ Created[Len(Created)].people = <<Roster[1]>>

\* page i of the database was resolved through the backend
Resolved(db, i) == db[i].status = "Done" /\ db[i].informed

\* the database with page i open again
Reopened(db, i) == [db EXCEPT ![i].status = "To Do"]

\* C17: a mark-resolved request answered with success leaves its page
\* with Status 'Done' and 'Customer informed' true; a selection made
\* afterwards does not count the page, so that its owner's count is one
\* lower than it would be with the page open; and no step of the backend
\* takes a page that is 'Done' back to another status or out of the
\* database.
C17_ResolvedStaysOut ==
  [][/\ \A r \in Reqs :
          reqs[r].pc = "updating" /\ reqs'[r].res = 200
          => /\ reqs[r].target \in 1..Len(store')
             /\ Resolved(store', reqs[r].target)
     /\ \A r \in Reqs : \A i \in 1..Len(store) :
          /\ QueryStep(r) /\ Resolved(store, i)
          /\ store[i].people # <<>> /\ store[i].people[1] \in RosterSet
          => reqs'[r].counts[store[i].people[1]] =
               OpenCountOf(Reopened(store, i), store[i].people[1]) - 1
     /\ \A i \in 1..Len(store) :
          store[i].status = "Done"
          => i <= Len(store') /\ store'[i].status = "Done"]_vars

\* C17 witness: the first page, a ticket of the first owner, was resolved
\* through the backend, and a later selection counted no open ticket for
\* that owner and chose the owner again
C17_Witness ==
  \E r \in Reqs :
    /\ Selected(r) /\ rev \in LoadRevisions
    /\ reqs[r].seen >= 1 /\ Resolved(store, 1)
    /\ store[1].people = <<Roster[1]>>
    /\ reqs[r].counts[Roster[1]] = 0
    /\ reqs[r].assignedId = Roster[1]

\* the step in which request r arrives at its route
Arrives(r) == reqs[r].pc \in {"idle", "done"} /\ reqs'[r] # reqs[r]

\* C18 (as claimed): a create-ticket request without issueSummary and a
\* mark-resolved request without pageId are answered 400 on arrival:
\* the handler ends without a query, a page creation or a page update,
\* and the database is unchanged.
C18_InvalidRejected ==
  [][\A r \in Reqs :
       /\ Arrives(r)
       /\ \/ reqs'[r].kind = "create" /\ ~reqs'[r].summary
          \/ reqs'[r].kind = "resolve" /\ reqs'[r].target = 0
       => /\ reqs'[r].pc = "done" /\ reqs'[r].res = 400
          /\ reqs'[r].page = 0
          /\ store' = store]_vars

====
